---- MODULE Spec2Model ----
(***************************************************************************)
(* Model of dpi (cmd/root.go): the foreground pipeline of Execute and      *)
(* runCommand, the signal listener goroutine of setupSignalHandler, the    *)
(* deferred calls of runCommand, and the process exit status.              *)
(*                                                                         *)
(* Strings are sequences of one-character strings, so that filepath.Ext,   *)
(* strings.ToLower, quoting and strings.Join are computed and not assumed. *)
(* The operating system, the file system and the duckdb child process are  *)
(* the environment: their answers are chosen with \E where the code asks.  *)
(* os.RemoveAll on the directory the run created itself is taken to        *)
(* succeed.  A signal is only considered once signal.Notify has run.       *)
(***************************************************************************)
EXTENDS Integers, Sequences, FiniteSets, TLC

VARIABLES
    pc,              \* position of the foreground task
    exitStatus,      \* NoExit while the process runs, else its exit status
    errKind,         \* which exitWithError call ended the run ("" if none)
    args,            \* positional command-line arguments
    strict,          \* value of the --strict flag
    lookPath,        \* result of exec.LookPath("duckdb")
    handlerRegistered, \* signal.Notify has been called
    sigChan,         \* buffered channel of setupSignalHandler (capacity 1)
    listener,        \* the goroutine of setupSignalHandler
    signalReceived,  \* the atomic.Bool of setupSignalHandler
    receivedSig,     \* the signal the listener took from sigChan (0 if none)
    notices,         \* number of "Received signal" notices printed
    loaded,          \* what signalReceived.Load() gave the finalization step
    delivered,       \* number of signals the OS delivered to the process
    defers,          \* deferred calls of runCommand, in registration order
    detectDone,      \* determineFileFormat was called
    fileFormat,      \* its result
    mkdirResult,     \* answer of os.MkdirTemp: "none", "ok", "error"
    tempDir,         \* name returned by createTempDirectory ("" if none)
    tempDirExists,   \* the staging directory is on disk
    removeExecuted,  \* os.RemoveAll(tempDir) was executed
    resolveDone,     \* processInputFiles was called
    globFiles,       \* what filepath.Glob returned
    statResult,      \* what os.Stat returned ("none" if not called)
    pathOnDisk,      \* whether the path given to os.Stat exists on disk
    filename,        \* FileNameString returned by processInputFiles
    resolveErr,      \* error returned by processInputFiles ("none" if nil)
    child,           \* the running child process ("none" if there is none)
    spawned,         \* the commands started so far
    childResults,    \* how the children that ended did end
    sigAt            \* positions of the foreground task at signal deliveries

vars == <<pc, exitStatus, errKind, args, strict, lookPath, handlerRegistered,
          sigChan, listener, signalReceived, receivedSig, notices, loaded,
          delivered, defers, detectDone, fileFormat, mkdirResult, tempDir, tempDirExists,
          removeExecuted, resolveDone, globFiles, statResult, pathOnDisk,
          filename, resolveErr, child, spawned, childResults,
          sigAt>>

----------------------------------------------------------------------------
(* Bounds *)

MaxSignals == 2      \* signals delivered during one run
MaxFiles == 2        \* files a pattern expands to

----------------------------------------------------------------------------
(* Program constants *)

NoExit == -1         \* the process has not exited
SIGINT == 2          \* os.Interrupt
SIGTERM == 15        \* syscall.SIGTERM
SigChanCap == 1      \* make(chan os.Signal, 1)
Signals == {SIGINT, SIGTERM}

Parquet == "parquet"
CSV == "csv"
Unsupported == ""
TableName == "p"
TempDirName == "dpi1"    \* the unique name os.MkdirTemp("", "dpi") makes

----------------------------------------------------------------------------
(* Strings *)

Upper == <<"A","C","E","G","P","Q","R","S","T","U","V","Z","D">>
Lower == <<"a","c","e","g","p","q","r","s","t","u","v","z","d">>

ToLowerChar(c) ==
    IF \E i \in 1..Len(Upper) : Upper[i] = c
    THEN Lower[CHOOSE i \in 1..Len(Upper) : Upper[i] = c]
    ELSE c

ToLower(s) == [i \in 1..Len(s) |-> ToLowerChar(s[i])]

\* filepath.Ext: the suffix beginning at the final dot of the final element
RECURSIVE ExtFrom(_, _)
ExtFrom(path, i) ==
    IF i < 1 \/ path[i] = "/" THEN <<>>
    ELSE IF path[i] = "." THEN SubSeq(path, i, Len(path))
    ELSE ExtFrom(path, i - 1)

Ext(path) == ExtFrom(path, Len(path))

RECURSIVE Join(_, _)
Join(elems, sep) ==
    IF Len(elems) = 0 THEN <<>>
    ELSE IF Len(elems) = 1 THEN elems[1]
    ELSE elems[1] \o sep \o Join(Tail(elems), sep)

Quote(f) == <<"'">> \o f \o <<"'">>

----------------------------------------------------------------------------
(* Pure functions of root.go *)

\* determineFileFormat comparing the extension without strings.ToLower
determineFileFormat_caseSensitive(path) ==
    LET ext == Ext(path) IN
    IF ext = <<".","p","a","r","q","u","e","t">> THEN Parquet
    ELSE IF ext = <<".","c","s","v">> \/ ext = <<".","g","z">> THEN CSV
    ELSE Unsupported

determineFileFormat(path) ==
    LET ext == ToLower(Ext(path)) IN
    IF ext = <<".","p","a","r","q","u","e","t">> THEN Parquet
    ELSE IF ext = <<".","c","s","v">> \/ ext = <<".","g","z">> THEN CSV
    ELSE Unsupported

\* os.Stat answers; fileExists is true unless the error is "does not exist"
fileExists(stat) == stat # "ENOENT"

\* processInputFiles with the quotes forgotten in the loop over the files
processInputFiles_unquoted(filePath, format, glob, stat) ==
    IF format = Parquet
    THEN IF glob.err THEN [name |-> <<>>, err |-> "BadPattern"]
         ELSE IF Len(glob.files) = 0 THEN [name |-> <<>>, err |-> "NoMatch"]
         ELSE [name |-> Join(glob.files, <<",">>), err |-> "none"]
    ELSE IF ~fileExists(stat) THEN [name |-> <<>>, err |-> "NotFound"]
         ELSE [name |-> Quote(filePath), err |-> "none"]

\* processInputFiles, given the answers of filepath.Glob and os.Stat
processInputFiles(filePath, format, glob, stat) ==
    IF format = Parquet
    THEN IF glob.err THEN [name |-> <<>>, err |-> "BadPattern"]
         ELSE IF Len(glob.files) = 0 THEN [name |-> <<>>, err |-> "NoMatch"]
         ELSE [name |-> Join([i \in 1..Len(glob.files) |-> Quote(glob.files[i])],
                             <<",">>),
               err |-> "none"]
    ELSE IF ~fileExists(stat) THEN [name |-> <<>>, err |-> "NotFound"]
         ELSE [name |-> Quote(filePath), err |-> "none"]

\* the statement createTemporaryTable builds
LoadQuery(name, format, strictMode) ==
    IF format = Parquet
    THEN <<"CREATE TABLE ", TableName, " AS SELECT * FROM read_parquet([">>
         \o name \o <<"]);">>
    ELSE <<"CREATE TABLE ", TableName, " AS SELECT * FROM read_csv(">>
         \o name \o <<", strict_mode=", IF strictMode THEN "true" ELSE "false", ");">>

DuckdbPath(dir) == <<dir, "/", "tmp.duckdb">>

\* the finalization step exiting with 128 + the number of the signal
SignalExitCode_perSignal(sig) == 128 + sig

\* the exit status of the finalization step
SignalExitCode(sig) == 130

----------------------------------------------------------------------------
(* Environment: command lines, the file system, the child process *)

PathSamples ==
    { <<"d",".","p","a","r","q","u","e","t">>,
      <<"D",".","P","A","R","Q","U","E","T">>,
      <<"*",".","p","a","r","q","u","e","t">>,
      <<"[",".","p","a","r","q","u","e","t">>,
      <<"d",".","c","s","v">>,
      <<"d",".","C","s","V">>,
      <<"'",".","c","s","v">>,
      <<"d",".","c","s","v",".","g","z">>,
      <<"d",".","G","z">>,
      <<"d",".","t","x","t">>,
      <<"d">>,
      <<"d",".","c","s","v","/","d">>,
      <<"d",".","p","a","r","q","u","e","t",".","t","x","t">> }

\* cobra hands runCommand the positional arguments; ExactArgs(1) rejects
\* every other count
ArgLists ==
    {<<>>} \cup {<<p>> : p \in PathSamples}
           \cup {<< <<"d",".","c","s","v">>, <<"d",".","t","x","t">> >>}

\* names a pattern can expand to, in the lexical order filepath.Glob returns
GlobNames ==
    << <<" ", ".parquet">>, <<"'", ".parquet">>, <<",", ".parquet">>,
       <<"a", "'", ",", "'", "b", ".parquet">> >>

RECURSIVE IncreasingSeqs(_, _)
\* the strictly increasing index sequences over lo..Len(GlobNames), length <= n
IncreasingSeqs(lo, n) ==
    IF n = 0 THEN {<<>>}
    ELSE {<<>>} \cup UNION { { <<i>> \o t : t \in IncreasingSeqs(i + 1, n - 1) }
                             : i \in lo..Len(GlobNames) }

hasMeta(path) == \E i \in 1..Len(path) : path[i] \in {"*", "?", "[", "\\"}

badPattern(path) ==
    \E i \in 1..Len(path) :
        /\ path[i] = "["
        /\ ~\E j \in (i + 1)..Len(path) : path[j] = "]"

\* findParquetFiles: the answers filepath.Glob can give for a pattern
findParquetFiles(pattern) ==
    IF ~hasMeta(pattern)
    THEN { [files |-> <<>>, err |-> FALSE], [files |-> <<pattern>>, err |-> FALSE] }
    ELSE IF badPattern(pattern)
    THEN { [files |-> <<>>, err |-> TRUE] }
    ELSE { [files |-> [k \in 1..Len(ix) |-> GlobNames[ix[k]]], err |-> FALSE]
           : ix \in IncreasingSeqs(1, MaxFiles) }

NoGlob == [files |-> <<>>, err |-> FALSE]

\* answers of os.Stat, with whether the path is on disk in that case
StatAnswers ==
    { [stat |-> "ok", onDisk |-> TRUE],
      [stat |-> "ENOENT", onDisk |-> FALSE],
      [stat |-> "ENOTDIR", onDisk |-> FALSE],
      [stat |-> "EACCES", onDisk |-> TRUE],
      [stat |-> "EACCES", onDisk |-> FALSE] }

\* how a child process ends: cmd.Run returns nil only for "exit0"
ChildEnds == {"exit0", "exit1", "signaled"}

running == exitStatus = NoExit

----------------------------------------------------------------------------
(* Initial state: the process has started, nothing has run *)

Init ==
    /\ pc = "Execute"
    /\ exitStatus = NoExit
    /\ errKind = ""
    /\ args \in ArgLists
    /\ strict \in BOOLEAN
    /\ lookPath = "unchecked"
    /\ handlerRegistered = FALSE
    /\ sigChan = <<>>
    /\ listener = "notStarted"
    /\ signalReceived = FALSE
    /\ receivedSig = 0
    /\ notices = 0
    /\ loaded = "notRun"
    /\ delivered = 0
    /\ defers = <<>>
    /\ detectDone = FALSE
    /\ fileFormat = Unsupported
    /\ mkdirResult = "none"
    /\ tempDir = ""
    /\ tempDirExists = FALSE
    /\ removeExecuted = FALSE
    /\ resolveDone = FALSE
    /\ globFiles = NoGlob
    /\ statResult = "none"
    /\ pathOnDisk = FALSE
    /\ filename = <<>>
    /\ resolveErr = "none"
    /\ child = "none"
    /\ spawned = <<>>
    /\ childResults = <<>>
    /\ sigAt = {}

sigVars == <<handlerRegistered, sigChan, listener, signalReceived, receivedSig,
             notices, loaded, delivered, sigAt>>
resolveVars == <<resolveDone, globFiles, statResult, pathOnDisk, filename,
                 resolveErr>>
dirVars == <<mkdirResult, tempDir, tempDirExists, removeExecuted>>
childVars == <<child, spawned, childResults>>
inputVars == <<args, strict>>

\* exitWithError: print the message and os.Exit(1); os.Exit ends the process
\* at once, deferred calls are not run
exitWithError(kind) ==
    /\ exitStatus' = 1
    /\ errKind' = kind
    /\ pc' = "exited"

----------------------------------------------------------------------------
(* Foreground task *)

\* ensureDuckDBBinary with the LookPath error dropped
ensureDuckDBBinary_errorDropped(found) == "nil"

\* ensureDuckDBBinary: an error when exec.LookPath did not find duckdb
ensureDuckDBBinary(found) == IF found THEN "nil" ELSE "error"

\* Execute, first half: check that the DuckDB binary is available
Execute ==
    /\ running /\ pc = "Execute"
    /\ \E found \in BOOLEAN :
         /\ lookPath' = IF found THEN "found" ELSE "missing"
         /\ IF ensureDuckDBBinary(found) = "nil"
            THEN /\ pc' = "rootCmd"
                 /\ UNCHANGED <<exitStatus, errKind>>
            ELSE exitWithError("MissingDependency")
    /\ UNCHANGED <<inputVars, sigVars, defers, detectDone, fileFormat, dirVars,
                   resolveVars, childVars>>

\* Execute, second half: rootCmd.Execute validates Args: cobra.ExactArgs(1)
\* and calls runCommand, or returns the error Execute turns into exit 1
rootCmdExecute ==
    /\ running /\ pc = "rootCmd"
    /\ IF Len(args) = 1
       THEN /\ pc' = "setup"
            /\ UNCHANGED <<exitStatus, errKind>>
       ELSE exitWithError("Usage")
    /\ UNCHANGED <<inputVars, lookPath, sigVars, defers, detectDone, fileFormat,
                   dirVars, resolveVars, childVars>>

\* runCommand: cleanupSignalHandler := setupSignalHandler(); defer it
setupSignalHandler ==
    /\ running /\ pc = "setup"
    /\ handlerRegistered' = TRUE
    /\ listener' = "waiting"
    /\ defers' = Append(defers, "cleanupSignalHandler")
    /\ pc' = "detect"
    /\ UNCHANGED <<exitStatus, errKind, inputVars, lookPath, sigChan,
                   signalReceived, receivedSig, notices, loaded,
                   delivered, sigAt, detectDone, fileFormat, dirVars,
                   resolveVars, childVars>>

\* runCommand: determine the file format
detectFormat ==
    /\ running /\ pc = "detect"
    /\ detectDone' = TRUE
    /\ fileFormat' = determineFileFormat(args[1])
    /\ IF fileFormat' = Unsupported
       THEN exitWithError("UnsupportedFormat")
       ELSE /\ pc' = "mktemp"
            /\ UNCHANGED <<exitStatus, errKind>>
    /\ UNCHANGED <<inputVars, lookPath, sigVars, defers, dirVars, resolveVars,
                   childVars>>

\* the removal deferred so that it runs after cleanupSignalHandler
deferRemoveAll_runsLast(stack) == <<"RemoveAll">> \o stack

\* defer os.RemoveAll(tempDir): registered after cleanupSignalHandler
deferRemoveAll(stack) == Append(stack, "RemoveAll")

\* runCommand: create the temporary directory and defer os.RemoveAll
createTempDirectory ==
    /\ running /\ pc = "mktemp"
    /\ \E ok \in BOOLEAN :
         IF ok
         THEN /\ mkdirResult' = "ok"
              /\ tempDir' = TempDirName
              /\ tempDirExists' = TRUE
              /\ defers' = deferRemoveAll(defers)
              /\ pc' = "resolve"
              /\ UNCHANGED <<exitStatus, errKind>>
         ELSE /\ mkdirResult' = "error"
              /\ exitWithError("IOError")
              /\ UNCHANGED <<tempDir, tempDirExists, defers>>
    /\ UNCHANGED <<inputVars, lookPath, sigVars, detectDone, fileFormat,
                   removeExecuted, resolveVars, childVars>>

\* runCommand: process the input files
resolveFiles ==
    /\ running /\ pc = "resolve"
    /\ \E glob \in IF fileFormat = Parquet THEN findParquetFiles(args[1])
                                          ELSE {NoGlob},
          st \in IF fileFormat = Parquet
                 THEN {[stat |-> "none", onDisk |-> FALSE]} ELSE StatAnswers :
         LET r == processInputFiles(args[1], fileFormat, glob, st.stat) IN
         /\ resolveDone' = TRUE
         /\ globFiles' = glob
         /\ statResult' = st.stat
         /\ pathOnDisk' = st.onDisk
         /\ filename' = r.name
         /\ resolveErr' = r.err
         /\ IF r.err # "none"
            THEN exitWithError("ResolutionError")
            ELSE /\ pc' = "createTable"
                 /\ UNCHANGED <<exitStatus, errKind>>
    /\ UNCHANGED <<inputVars, lookPath, sigVars, defers, detectDone, fileFormat,
                   dirVars, childVars>>

\* executeCommand starting the child without waiting for it (cmd.Start for
\* cmd.Run): the caller goes on while the child runs
executeCommand_noWait(kind, db, query, failKind, waitPc) ==
    \E started \in BOOLEAN :
        IF started
        THEN /\ child' = kind
             /\ spawned' = Append(spawned, [kind |-> kind,
                                            db |-> db,
                                            query |-> query])
             /\ pc' = IF kind = "materialize" THEN "startCLI" ELSE "return"
             /\ UNCHANGED <<exitStatus, errKind, childResults>>
        ELSE /\ childResults' = Append(childResults, "spawnFailed")
             /\ exitWithError(failKind)
             /\ UNCHANGED <<child, spawned>>

\* executeCommand up to the start of the child: cmd.Run fails at once when
\* the child cannot be started
executeCommand(kind, db, query, failKind, waitPc) ==
    \E started \in BOOLEAN :
        IF started
        THEN /\ child' = kind
             /\ spawned' = Append(spawned, [kind |-> kind,
                                            db |-> db,
                                            query |-> query])
             /\ pc' = waitPc
             /\ UNCHANGED <<exitStatus, errKind, childResults>>
        ELSE /\ childResults' = Append(childResults, "spawnFailed")
             /\ exitWithError(failKind)
             /\ UNCHANGED <<child, spawned>>

\* the error of cmd.Run ignored: the pipeline goes on after a failed child
childEnds_errorIgnored(kind, failKind, nextPc) ==
    /\ child = kind
    /\ \E end \in ChildEnds :
         /\ child' = "none"
         /\ childResults' = Append(childResults, end)
         /\ pc' = nextPc
         /\ UNCHANGED <<spawned, exitStatus, errKind>>

\* cmd.Run returns when the child has ended: nil after exit status 0, an
\* error otherwise
childEnds(kind, failKind, nextPc) ==
    /\ child = kind
    /\ \E end \in ChildEnds :
         /\ child' = "none"
         /\ childResults' = Append(childResults, end)
         /\ UNCHANGED spawned
         /\ IF end = "exit0"
            THEN /\ pc' = nextPc
                 /\ UNCHANGED <<exitStatus, errKind>>
            ELSE exitWithError(failKind)

\* runCommand: createTemporaryTable builds the statement and runs duckdb -c
createTemporaryTable ==
    /\ running /\ pc = "createTable"
    /\ executeCommand("materialize", DuckdbPath(tempDir),
                      LoadQuery(filename, fileFormat, strict),
                      "LoadError", "tableWait")
    /\ UNCHANGED <<inputVars, lookPath, sigVars, defers, detectDone, fileFormat,
                   dirVars, resolveVars>>

\* a failed materialization tried again instead of ending the run
createTemporaryTableDone_retry ==
    /\ running /\ pc = "tableWait"
    /\ child = "materialize"
    /\ \E end \in ChildEnds :
         /\ child' = "none"
         /\ childResults' = Append(childResults, end)
         /\ pc' = IF end = "exit0" THEN "startCLI" ELSE "createTable"
    /\ UNCHANGED <<exitStatus, errKind, spawned, inputVars, lookPath, sigVars,
                   defers, detectDone, fileFormat, dirVars, resolveVars>>

createTemporaryTableDone ==
    /\ running /\ pc = "tableWait"
    /\ childEnds("materialize", "LoadError", "startCLI")
    /\ UNCHANGED <<inputVars, lookPath, sigVars, defers, detectDone, fileFormat,
                   dirVars, resolveVars>>

\* runCommand: start the DuckDB CLI on the database file
startDuckDBCLI ==
    /\ running /\ pc = "startCLI"
    /\ executeCommand("interactive", DuckdbPath(tempDir), <<>>,
                      "LaunchError", "cliWait")
    /\ UNCHANGED <<inputVars, lookPath, sigVars, defers, detectDone, fileFormat,
                   dirVars, resolveVars>>

\* runCommand: the CLI ended; an error is fatal, otherwise runCommand returns
duckDBCLIDone ==
    /\ running /\ pc = "cliWait"
    /\ childEnds("interactive", "LaunchError", "return")
    /\ UNCHANGED <<inputVars, lookPath, sigVars, defers, detectDone, fileFormat,
                   dirVars, resolveVars>>

\* runCommand returns: the deferred calls run last registered first.
\* defer os.RemoveAll(tempDir)
deferredRemoveAll ==
    /\ running /\ pc = "return"
    /\ defers # <<>> /\ defers[Len(defers)] = "RemoveAll"
    /\ defers' = SubSeq(defers, 1, Len(defers) - 1)
    /\ tempDirExists' = FALSE
    /\ removeExecuted' = TRUE
    /\ UNCHANGED <<pc, exitStatus, errKind, inputVars, lookPath, sigVars,
                   detectDone, fileFormat, mkdirResult, tempDir, resolveVars,
                   childVars>>

\* the finalization returning without looking at the flag
cleanupSignalHandler_noExit ==
    /\ running /\ pc = "return"
    /\ defers # <<>> /\ defers[Len(defers)] = "cleanupSignalHandler"
    /\ defers' = SubSeq(defers, 1, Len(defers) - 1)
    /\ loaded' = "idle"
    /\ UNCHANGED <<pc, exitStatus, errKind, inputVars, lookPath,
                   handlerRegistered, sigChan, listener, signalReceived,
                   receivedSig, notices, delivered, sigAt, detectDone,
                   fileFormat, dirVars, resolveVars, childVars>>

\* the finalization waiting for the listener goroutine to end
cleanupSignalHandler_joinsListener ==
    /\ running /\ pc = "return"
    /\ defers # <<>> /\ defers[Len(defers)] = "cleanupSignalHandler"
    /\ listener = "done"
    /\ defers' = SubSeq(defers, 1, Len(defers) - 1)
    /\ loaded' = "received"
    /\ exitStatus' = SignalExitCode(receivedSig)
    /\ pc' = "exited"
    /\ UNCHANGED <<errKind, inputVars, lookPath, handlerRegistered, sigChan,
                   listener, signalReceived, receivedSig, notices, delivered,
                   sigAt, detectDone, fileFormat, dirVars,
                   resolveVars, childVars>>

\* defer cleanupSignalHandler(): the function setupSignalHandler returned
cleanupSignalHandler ==
    /\ running /\ pc = "return"
    /\ defers # <<>> /\ defers[Len(defers)] = "cleanupSignalHandler"
    /\ defers' = SubSeq(defers, 1, Len(defers) - 1)
    /\ IF signalReceived
       THEN /\ loaded' = "received"
            /\ exitStatus' = SignalExitCode(receivedSig)
            /\ pc' = "exited"
       ELSE /\ loaded' = "idle"
            /\ UNCHANGED <<pc, exitStatus>>
    /\ UNCHANGED <<errKind, inputVars, lookPath, handlerRegistered, sigChan,
                   listener, signalReceived, receivedSig, notices, delivered,
                   sigAt, detectDone, fileFormat, dirVars,
                   resolveVars, childVars>>

\* runCommand and rootCmd.Execute returned without error: Execute returns
\* and the process ends with status 0
ExecuteReturn ==
    /\ running /\ pc = "return" /\ defers = <<>>
    /\ exitStatus' = 0
    /\ pc' = "exited"
    /\ UNCHANGED <<errKind, inputVars, lookPath, sigVars, defers, detectDone,
                   fileFormat, dirVars, resolveVars, childVars>>

----------------------------------------------------------------------------
(* Signals *)

\* the OS delivers a registered signal; the runtime sends it to sigChan
\* without blocking and drops it when the channel is full
signalNotify ==
    /\ running /\ handlerRegistered
    /\ delivered < MaxSignals
    /\ \E sig \in Signals :
         sigChan' = IF Len(sigChan) < SigChanCap THEN Append(sigChan, sig)
                                                 ELSE sigChan
    /\ delivered' = delivered + 1
    /\ sigAt' = sigAt \cup {pc}
    /\ UNCHANGED <<pc, exitStatus, errKind, inputVars, lookPath,
                   handlerRegistered, listener, signalReceived, receivedSig,
                   notices, loaded, defers, detectDone, fileFormat, dirVars,
                   resolveVars, childVars>>

\* the goroutine receiving in a loop: it handles every signal it is sent
listenerGoroutine_loop ==
    /\ running /\ listener = "waiting"
    /\ sigChan # <<>>
    /\ receivedSig' = Head(sigChan)
    /\ sigChan' = Tail(sigChan)
    /\ signalReceived' = TRUE
    /\ notices' = notices + 1
    /\ UNCHANGED <<pc, exitStatus, errKind, inputVars, lookPath,
                   handlerRegistered, listener, loaded, delivered, sigAt,
                   defers, detectDone, fileFormat, dirVars, resolveVars,
                   childVars>>

\* the goroutine ending the process itself once it has the signal
listenerGoroutine_exits ==
    /\ running /\ listener = "waiting"
    /\ sigChan # <<>>
    /\ receivedSig' = Head(sigChan)
    /\ sigChan' = Tail(sigChan)
    /\ signalReceived' = TRUE
    /\ notices' = notices + 1
    /\ listener' = "done"
    /\ exitStatus' = 130
    /\ pc' = "exited"
    /\ UNCHANGED <<errKind, inputVars, lookPath,
                   handlerRegistered, loaded, delivered, sigAt,
                   defers, detectDone, fileFormat, dirVars, resolveVars,
                   childVars>>

\* the goroutine of setupSignalHandler: take one signal, set the flag, print
\* the notice, end
listenerGoroutine ==
    /\ running /\ listener = "waiting"
    /\ sigChan # <<>>
    /\ receivedSig' = Head(sigChan)
    /\ sigChan' = Tail(sigChan)
    /\ signalReceived' = TRUE
    /\ notices' = notices + 1
    /\ listener' = "done"
    /\ UNCHANGED <<pc, exitStatus, errKind, inputVars, lookPath,
                   handlerRegistered, loaded, delivered, sigAt, defers,
                   detectDone, fileFormat, dirVars, resolveVars,
                   childVars>>

----------------------------------------------------------------------------

Next ==
    \/ Execute
    \/ rootCmdExecute
    \/ setupSignalHandler
    \/ detectFormat
    \/ createTempDirectory
    \/ resolveFiles
    \/ createTemporaryTable
    \/ createTemporaryTableDone
    \/ startDuckDBCLI
    \/ duckDBCLIDone
    \/ deferredRemoveAll
    \/ cleanupSignalHandler
    \/ ExecuteReturn
    \/ signalNotify
    \/ listenerGoroutine

Spec == Init /\ [][Next]_vars

\* the steps of the foreground task, the ends of its children included
Foreground ==
    \/ Execute
    \/ rootCmdExecute
    \/ setupSignalHandler
    \/ detectFormat
    \/ createTempDirectory
    \/ resolveFiles
    \/ createTemporaryTable
    \/ createTemporaryTableDone
    \/ startDuckDBCLI
    \/ duckDBCLIDone
    \/ deferredRemoveAll
    \/ cleanupSignalHandler
    \/ ExecuteReturn

\* the main goroutine is scheduled while it can run and every child ends;
\* nothing is assumed of signals or of the listener goroutine
LiveSpec == Init /\ [][Next]_vars /\ WF_vars(Foreground)

----------------------------------------------------------------------------
(* Properties *)

exited == exitStatus # NoExit

\* a signal was delivered while the interactive child was running
sigInSession == "cliWait" \in sigAt

\* a signal was delivered while the materialization child or the
\* interactive child was running, hence after the directory was created
sigInChild == sigAt \cap {"tableWait", "cliWait"} # {}

\* C1: whenever the process has exited after the staging directory was
\* created, the staging directory is no longer on disk.
C1_RemovedOnEveryExit ==
    (exited /\ mkdirResult = "ok") => ~tempDirExists

\* C2: a run in which a registered signal was delivered while the
\* interactive child was active exits with status 130, however the child ends.
C2_SignalInSessionExits130 ==
    (exited /\ sigInSession) => exitStatus = 130

\* C3: a run in which a registered signal was delivered after the staging
\* directory was created has removed the directory when it exits.
C3_RemovedAfterSignal ==
    (exited /\ sigInChild) => (removeExecuted /\ ~tempDirExists)

\* C4 as stated: when the finalization step found the flag set, the exit
\* status is 128 plus the number of the signal the listener received.
C4_ExitIs128PlusSignal ==
    loaded = "received" => exitStatus = 128 + receivedSig

\* C4 as amended: when the finalization step found the flag set, the exit
\* status is 130 whichever registered signal the listener received.
C4_ExitIs130ForEverySignal ==
    loaded = "received" => (receivedSig \in Signals /\ exitStatus = 130)

C4_Witness ==
    loaded = "received" /\ receivedSig = SIGTERM /\ exitStatus = 130

\* C5: a run that exits with status 130 has executed the removal of the
\* staging directory before, and the directory is not on disk at the exit.
C5_Exit130AfterCleanup ==
    exitStatus = 130 => (mkdirResult = "ok" /\ removeExecuted /\ ~tempDirExists)

C5_Witness ==
    exitStatus = 130 /\ signalReceived /\ removeExecuted /\ tempDir = TempDirName

\* C6: a run whose resolution failed with NotFound or NoMatch exits with
\* status 1 and never created a staging directory.
C6_NoStagingOnResolutionFailure ==
    (exited /\ resolveErr \in {"NotFound", "NoMatch"}) =>
        (exitStatus = 1 /\ mkdirResult = "none" /\ tempDir = "")

\* C7: when duckdb is not found the process has exited with status 1 and
\* nothing else ran: no signal handler, no detection, no resolution, no
\* staging directory, no child process.
C7_MissingBinaryExitsFirst ==
    lookPath = "missing" =>
        /\ exitStatus = 1
        /\ ~handlerRegistered /\ listener = "notStarted"
        /\ ~detectDone /\ ~resolveDone
        /\ mkdirResult = "none" /\ ~tempDirExists
        /\ spawned = <<>> /\ child = "none"

C7_Witness ==
    lookPath = "missing" /\ exited /\ errKind = "MissingDependency"

FatalOccurred ==
    \/ lookPath = "missing"
    \/ (lookPath = "found" /\ pc # "rootCmd" /\ Len(args) # 1)
    \/ (detectDone /\ fileFormat = Unsupported)
    \/ mkdirResult = "error"
    \/ resolveErr # "none"
    \/ \E i \in 1..Len(childResults) : childResults[i] # "exit0"

AllSucceeded ==
    /\ detectDone /\ fileFormat \in {Parquet, CSV}
    /\ resolveDone /\ resolveErr = "none"
    /\ mkdirResult = "ok"
    /\ Len(spawned) = 2
    /\ spawned[1].kind = "materialize" /\ spawned[2].kind = "interactive"
    /\ childResults = <<"exit0", "exit0">>

\* C8: the exit status is 0, 1 or 130; once a fatal error has occurred the
\* process has exited with status 1; status 0 only after detection,
\* resolution, staging, materialization and the session all succeeded.
C8_ExitStatuses ==
    /\ exitStatus \in {NoExit, 0, 1, 130}
    /\ FatalOccurred => exitStatus = 1
    /\ exitStatus = 1 => FatalOccurred
    /\ exitStatus = 0 => AllSucceeded

C8_Witness ==
    /\ exitStatus = 1
    /\ childResults = <<"exit0", "signaled">>
    /\ signalReceived

RECURSIVE Offset(_, _)
\* position in the joined string of the opening quote of the i-th file
Offset(files, i) ==
    IF i = 1 THEN 1 ELSE Offset(files, i - 1) + Len(files[i - 1]) + 3

\* C9: for the columnar format, an expansion of N >= 1 files gives the N
\* files in order, each between single quotes, separated by one comma and
\* nothing else; an expansion of 0 files gives NoMatch and a fatal error.
C9_GlobResolution ==
    (resolveDone /\ fileFormat = Parquet /\ ~globFiles.err) =>
        LET fs == globFiles.files
            n == Len(fs)
        IN IF n = 0
           THEN resolveErr = "NoMatch" /\ filename = <<>> /\ exitStatus = 1
           ELSE /\ resolveErr = "none"
                /\ Len(filename) = Offset(fs, n + 1) - 2
                /\ \A i \in 1..n :
                     /\ filename[Offset(fs, i)] = "'"
                     /\ SubSeq(filename, Offset(fs, i) + 1,
                               Offset(fs, i) + Len(fs[i])) = fs[i]
                     /\ filename[Offset(fs, i) + Len(fs[i]) + 1] = "'"
                /\ \A i \in 2..n : filename[Offset(fs, i) - 1] = ","

C9_Witness ==
    /\ resolveDone /\ fileFormat = Parquet /\ resolveErr = "none"
    /\ Len(globFiles.files) = MaxFiles
    /\ pc = "createTable"

\* C10: for the delimited format, resolution returns the quoted path exactly
\* when the path is on disk, and fails with NotFound for every path that is
\* not on disk, whatever error the existence check met.
C10_DelimitedResolution ==
    (resolveDone /\ fileFormat = CSV) =>
        /\ (resolveErr = "none" /\ filename = Quote(args[1])) <=> pathOnDisk
        /\ ~pathOnDisk => resolveErr = "NotFound"

\* the two characters are the same letter, whatever their case
SameLetter(a, b) ==
    a = b \/ \E i \in 1..Len(Upper) : {a, b} = {Upper[i], Lower[i]}

\* the path ends with the suffix, case not considered
EndsWithFold(path, suffix) ==
    /\ Len(path) >= Len(suffix)
    /\ \A i \in 1..Len(suffix) :
         SameLetter(path[Len(path) - Len(suffix) + i], suffix[i])

\* C11: the detected format depends only on the final extension of the path,
\* case not considered: .parquet is columnar, .csv and .gz are delimited,
\* anything else is unsupported; an unsupported format ends the run with
\* status 1, with no staging directory and no child process.
C11_Detection ==
    detectDone =>
        /\ fileFormat =
             IF EndsWithFold(args[1], <<".","p","a","r","q","u","e","t">>)
             THEN Parquet
             ELSE IF \/ EndsWithFold(args[1], <<".","c","s","v">>)
                     \/ EndsWithFold(args[1], <<".","g","z">>)
                  THEN CSV
                  ELSE Unsupported
        /\ fileFormat = Unsupported =>
             /\ exitStatus = 1
             /\ mkdirResult = "none" /\ ~tempDirExists
             /\ spawned = <<>> /\ childResults = <<>>

C11_Witness ==
    /\ detectDone
    /\ args[1] = <<"D",".","P","A","R","Q","U","E","T">>
    /\ fileFormat = Parquet
    /\ pc = "mktemp"

\* the positions in spawned of the commands of one kind
SpawnedOf(kind) == {i \in 1..Len(spawned) : spawned[i].kind = kind}

\* C12: at most one materialization is ever attempted; an interactive
\* session is started only after that materialization ended with success,
\* on the same database file inside the staging directory; after a failed
\* materialization the run has ended and no session was started.
C12_SingleMaterialization ==
    /\ Cardinality(SpawnedOf("materialize")) <= 1
    /\ Cardinality(SpawnedOf("interactive")) <= 1
    /\ \A i \in SpawnedOf("interactive") :
         /\ i = 2 /\ spawned[1].kind = "materialize"
         /\ Len(childResults) >= 1 /\ childResults[1] = "exit0"
         /\ spawned[i].db = spawned[1].db
         /\ spawned[i].db[1] = tempDir /\ tempDir = TempDirName
    /\ (childResults # <<>> /\ childResults[1] # "exit0") =>
         /\ exitStatus = 1
         /\ Len(childResults) = 1
         /\ SpawnedOf("interactive") = {}

C12_Witness ==
    /\ Len(spawned) = 2
    /\ spawned[2].kind = "interactive"
    /\ child = "interactive"
    /\ childResults = <<"exit0">>

\* C13: the flag starts unset; it is set by the listener taking a registered
\* signal from the channel; once set it stays set, and no later signal makes
\* the listener record, print or change anything again.
C13_SignalStateMonotonic ==
    /\ ~signalReceived /\ receivedSig = 0 /\ notices = 0
    /\ [][ /\ signalReceived =>
               (signalReceived' /\ UNCHANGED <<receivedSig, notices, listener>>)
           /\ (~signalReceived /\ signalReceived') =>
               /\ sigChan # <<>> /\ Head(sigChan) \in Signals
               /\ receivedSig' = Head(sigChan)
               /\ notices' = 1
               /\ listener = "waiting" /\ listener' = "done" ]_vars

C13_Witness ==
    /\ signalReceived /\ notices = 1 /\ listener = "done"
    /\ delivered = MaxSignals
    /\ sigChan # <<>>

\* what the foreground task owns: its position, the exit status, the
\* deferred calls, the directory, the resolution and the children
foregroundVars ==
    <<pc, exitStatus, errKind, defers, detectDone, fileFormat, dirVars,
      resolveVars, childVars, loaded>>

\* C14: a step of the listener and the delivery of a signal leave the
\* foreground task, its children and the exit status as they were; the
\* process exits only in a step of the foreground task.
C14_ListenerLeavesForeground ==
    [][ /\ (listener = "waiting" /\ listener' = "done") =>
              UNCHANGED foregroundVars
        /\ (signalReceived' # signalReceived) => UNCHANGED foregroundVars
        /\ (delivered' # delivered) => UNCHANGED foregroundVars
        /\ (exitStatus' # exitStatus) =>
              /\ pc # "exited" /\ pc' = "exited"
              /\ UNCHANGED <<listener, signalReceived, receivedSig, notices,
                             sigChan, delivered>> ]_vars

C14_Witness ==
    /\ signalReceived /\ listener = "done"
    /\ pc = "cliWait" /\ child = "interactive"
    /\ exitStatus = NoExit
    /\ sigAt = {"tableWait"}

\* a signal was delivered before the interactive child ended
sigBeforeSessionEnd ==
    sigAt \cap {"detect", "mktemp", "resolve", "createTable", "tableWait",
                "startCLI", "cliWait"} # {}

\* C15: a run in which every stage succeeded and a signal was delivered
\* before the interactive child ended finds the flag set in the
\* finalization step and exits with status 130.
C15_SignalAlwaysObserved ==
    (exited /\ AllSucceeded /\ sigBeforeSessionEnd) =>
        (loaded = "received" /\ exitStatus = 130)

\* C16 as stated: a run in which the listener has set the flag does not exit
\* with status 0.
C16_NoZeroOnceFlagSet ==
    exitStatus = 0 => ~signalReceived

\* C16 as amended: once the listener has set the flag and the finalization
\* step has not read it yet, the finalization cannot find it unset and the
\* run cannot exit with status 0: it exits 130 from the finalization step of
\* a pipeline that returned without fatal error, and 1 on a fatal error.
C16_NoZeroOnceFlagSetBeforeRead ==
    [][ (signalReceived /\ loaded = "notRun") =>
            /\ loaded' # "idle"
            /\ exitStatus' \in {NoExit, 1, 130}
            /\ exitStatus' = 130 =>
                 (pc = "return" /\ loaded' = "received" /\ AllSucceeded')
            /\ exitStatus' = 1 => FatalOccurred' ]_vars

C16_Witness ==
    /\ exitStatus = 130
    /\ sigAt = {"cliWait"}
    /\ childResults = <<"exit0", "exit0">>
    /\ loaded = "received"

\* the children that were started and have not ended
aliveCount ==
    Len(spawned)
      - Cardinality({i \in 1..Len(childResults) : childResults[i] # "spawnFailed"})

\* C17: at most one child is alive at any time; the materialization child
\* has ended before the interactive child is started; the staging directory
\* is removed only when both children have ended.
C17_OneChildAtATime ==
    /\ aliveCount \in {0, 1}
    /\ aliveCount = 1 <=> child # "none"
    /\ Len(spawned) = 2 =>
         /\ Len(childResults) >= 1
         /\ childResults[1] = "exit0"
         /\ child \in {"none", "interactive"}
    /\ removeExecuted =>
         /\ aliveCount = 0
         /\ Len(spawned) = 2 /\ Len(childResults) = 2
    /\ (mkdirResult = "ok" /\ ~tempDirExists) => removeExecuted

C17_Witness ==
    /\ removeExecuted /\ ~tempDirExists
    /\ Len(spawned) = 2
    /\ childResults = <<"exit0", "exit0">>
    /\ aliveCount = 0

RECURSIVE SplitOutsideQuotes(_, _, _, _, _)
\* the pieces of s between the commas that are outside single quotes
SplitOutsideQuotes(s, i, inQuote, cur, acc) ==
    IF i > Len(s) THEN Append(acc, cur)
    ELSE IF s[i] = "'"
    THEN SplitOutsideQuotes(s, i + 1, ~inQuote, Append(cur, s[i]), acc)
    ELSE IF s[i] = "," /\ ~inQuote
    THEN SplitOutsideQuotes(s, i + 1, FALSE, <<>>, Append(acc, cur))
    ELSE SplitOutsideQuotes(s, i + 1, inQuote, Append(cur, s[i]), acc)

\* a piece without its enclosing quotes
Unquote(piece) ==
    IF Len(piece) >= 2 /\ piece[1] = "'" /\ piece[Len(piece)] = "'"
    THEN SubSeq(piece, 2, Len(piece) - 1)
    ELSE piece

\* the list of paths a quoted, comma-joined string denotes
Denoted(s) ==
    LET pieces == SplitOutsideQuotes(s, 1, FALSE, <<>>, <<>>)
    IN [i \in 1..Len(pieces) |-> Unquote(pieces[i])]

\* the paths a successful resolution resolved
ResolvedPaths ==
    IF fileFormat = Parquet THEN globFiles.files ELSE <<args[1]>>

\* C18: the string a successful resolution returns, split at the commas
\* outside quotes and with the enclosing quotes removed, is the list of the
\* resolved paths, also for paths with spaces, commas and single quotes.
C18_QuotingRoundTrip ==
    (resolveDone /\ resolveErr = "none") => Denoted(filename) = ResolvedPaths

\* C19: when the foreground task keeps running and every child ends, the
\* process eventually exits, with or without a signal and whether or not the
\* listener goroutine ever runs.
C19_EveryRunExits ==
    <>(exitStatus # NoExit)

C19_Witness ==
    /\ exitStatus = 0
    /\ listener = "waiting"
    /\ delivered = 0 /\ sigChan = <<>>
    /\ removeExecuted

====
